---- MODULE Spec2Model ----
(***************************************************************************)
(* The asynchronous analysis pipeline of the violence-detection backend.   *)
(*                                                                         *)
(* The repository holds two implementations of the pipeline:               *)
(*   variant "A": controllers/AnalysisController.ts together with the      *)
(*                QueueService of scripts/setupDirectories.ts:119-581      *)
(*                (addVideoAnalysisJob with five positional arguments,     *)
(*                Bull jobId = analysisId);                                *)
(*   variant "B": unnamed/part_000 together with the QueueService of       *)
(*                scripts/setupDirectories.ts:582-1000 (addVideoAnalysisJob*)
(*                with an options object, Bull-generated job ids).         *)
(* A behaviour runs one of them; Init chooses which.                       *)
(*                                                                         *)
(* The database tables (analyses, violence_detections), the Redis cache,   *)
(* the Bull queue and its locally emitted events are state.  Controller    *)
(* operations, the steps of the queue's job handler and the event          *)
(* listeners are actions.  The analysis engine is an input: each poll      *)
(* draws its answer from EngineAnswers.                                    *)
(***************************************************************************)
EXTENDS Integers, FiniteSets, Sequences, TLC

\* ---- bounds of the model ------------------------------------------------
MaxJobs == 1
MaxRaceJobs == 2
MaxDet == 1
MaxEvents == 2
MaxTime == 2
MaxQueued == 6
MaxClock == 26

\* ---- program constants --------------------------------------------------
Attempts == 3
Concurrency == 5
\* SessionService.SESSION_TTL (86400 s) and CLEANUP_INTERVAL (3600000 ms), in
\* hours, the unit of clock.
SessionTTL == 24
CleanupInterval == 1

\* ---- value domains ------------------------------------------------------
Videos == {"v1"}
UnknownVideo == "v0"
SessionIds == {"s1"}
ProgressValues == {0, 50, 100}
Params == {<<70, 1>>, <<50, 2>>}
EngineMessages == {"decode error", "null"}
TotalFramesOfEngine == 10

Null == "null"
NullInt == -1
Undefined == -1
NoResult == [kind |-> "none"]
NoResponse == [op |-> "none", target |-> 0, code |-> 0]
NoSession == [kind |-> "none"]

JobIds == 1..MaxRaceJobs

VARIABLES variant, videos, jobBudget, analyses, nextId, detections, queue, nextEntry,
          events, cacheProgress, cacheResult, startPending, response,
          clock, cleanedAt, sessions

vars == <<variant, videos, jobBudget, analyses, nextId, detections, queue, nextEntry,
          events, cacheProgress, cacheResult, startPending, response,
          clock, cleanedAt, sessions>>

\* The state of the session service: the time in hours, the time of the last
\* run of cleanupExpiredSessions, and the session keys of the cache.
sessionVars == <<clock, cleanedAt, sessions>>

\* ---- helpers ------------------------------------------------------------
Remove(f, x) == [y \in DOMAIN f \ {x} |-> f[y]]

Response(op, target, code) == [op |-> op, target |-> target, code |-> code]

NonTerminal == {"pending", "processing"}

\* Analysis.create({video_id, status: 'pending', progress: 0, confidence_threshold});
\* the other columns take the defaults of the analyses table.
NewAnalysis(v, ct) ==
    [video_id |-> v, status |-> "pending", progress |-> 0,
     confidence_threshold |-> ct, total_frames |-> NullInt,
     violent_frames |-> 0, completed_at |-> NullInt, error_message |-> Null]

\* Analysis.update(fields, {where: {id}}): changes the row when it exists and
\* no row otherwise.
UpdateAnalysis(tbl, id, fields) ==
    IF id \in DOMAIN tbl
    THEN [tbl EXCEPT ![id] = [f \in DOMAIN tbl[id] |->
              IF f \in DOMAIN fields THEN fields[f] ELSE tbl[id][f]]]
    ELSE tbl

\* new Date() as written to completed_at of row id: a time later than the one
\* the row holds.  Times are compared within one row only, and times from
\* MaxTime on are not told apart.
Now(tbl, id) ==
    IF id \in DOMAIN tbl /\ tbl[id].completed_at # NullInt
    THEN IF tbl[id].completed_at < MaxTime THEN tbl[id].completed_at + 1 ELSE MaxTime
    ELSE 1

\* analysis.destroy()
DestroyAnalysis(tbl, id) == Remove(tbl, id)

\* Analysis.findOne({where: {video_id, status: [...]}})
FindAnalyses(v, statuses) ==
    {j \in DOMAIN analyses : analyses[j].video_id = v /\ analyses[j].status \in statuses}

\* CacheService.deleteAnalysisCache: every key analysis:<id>:* is deleted.
DeleteAnalysisCache(j) ==
    /\ cacheProgress' = [cacheProgress EXCEPT ![j] = NullInt]
    /\ cacheResult' = [cacheResult EXCEPT ![j] = NoResult]

\* A Bull job as created by queue.add, with the locals of the handler run that
\* holds it: pc, lastProgress, remoteStatus (status of the last status document)
\* and result (the completed document).  retried records that retryAnalysis was
\* called for the job's analysis, rerun that the current run began after the
\* last such call.  failedReason is the message of the error that ended the
\* last failed attempt, as Bull stores it with the job.
NewEntry(j, v, p) ==
    [job |-> j, videoId |-> v, confidenceThreshold |-> p[1], frameInterval |-> p[2],
     state |-> "waiting", attemptsMade |-> 0, pc |-> "idle",
     lastProgress |-> 0, remoteStatus |-> "none", result |-> NoResult,
     failedReason |-> Null, retried |-> FALSE, rerun |-> FALSE]

\* jobBudget is the number of analyses a behaviour may still create.
Init ==
    /\ variant \in {"A", "B"}
    /\ clock = 0
    /\ cleanedAt = 0
    /\ sessions = [s \in SessionIds |-> NoSession]
    /\ videos = Videos
    /\ jobBudget = MaxJobs
    /\ analyses = <<>>
    /\ nextId = 1
    /\ detections = {}
    /\ queue = <<>>
    /\ nextEntry = 1
    /\ events = {}
    /\ cacheProgress = [j \in JobIds |-> NullInt]
    /\ cacheResult = [j \in JobIds |-> NoResult]
    /\ startPending = [v \in Videos |-> 0]
    /\ response = NoResponse


\* ---- Bull queue ----------------------------------------------------------
\* An add that ignores the job id: a stored id gets a second entry.
addVideoAnalysisJobNoJobId(q, j, v, p) ==
    IF j \in DOMAIN q THEN q @@ ((j + MaxJobs + MaxRaceJobs + 1) :> NewEntry(j, v, p))
    ELSE q @@ (j :> NewEntry(j, v, p))

\* queue.add('analyze-video', data, {jobId: analysisId}) of variant A: Bull
\* keeps one job per id, adding an id that is still stored changes nothing.
addVideoAnalysisJobA(q, j, v, p) ==
    IF j \in DOMAIN q THEN q ELSE q @@ (j :> NewEntry(j, v, p))

\* queue.add('analyze-video', data, {priority, delay}) of variant B: Bull
\* generates the job id; the options default with ||.
OrDefault(x, d) == IF x = 0 THEN d ELSE x

addVideoAnalysisJobB(q, id, j, v, p) ==
    q @@ (id :> NewEntry(j, v, <<OrDefault(p[1], 70), OrDefault(p[2], 1)>>))

MarkRetried(q, j) ==
    [e \in DOMAIN q |-> IF q[e].job = j
                         THEN [q[e] EXCEPT !.retried = TRUE, !.rerun = FALSE]
                         ELSE q[e]]

Live == {"waiting", "delayed", "active"}

ActiveEntries == {e \in DOMAIN queue : queue[e].state = "active"}

RECURSIVE SumOver(_, _)
SumOver(f, S) ==
    IF S = {} THEN 0
    ELSE LET x == CHOOSE y \in S : TRUE IN f[x] + SumOver(f, S \ {x})

\* startAnalysisCheckA with an existence check that looks for pending analyses
\* only.
startAnalysisCheckPendingOnly(v) ==
    /\ variant = "A"
    /\ IF v \notin videos
       THEN /\ response' = Response("start", 0, 404)
            /\ UNCHANGED startPending
       ELSE IF FindAnalyses(v, {"pending"}) # {}
       THEN /\ response' = Response("start", 0, 409)
            /\ UNCHANGED startPending
       ELSE /\ SumOver(startPending, Videos) < jobBudget
            /\ startPending' = [startPending EXCEPT ![v] = @ + 1]
            /\ response' = NoResponse
    /\ UNCHANGED <<variant, sessionVars, videos, jobBudget, analyses, nextId, detections, queue, nextEntry,
                   events, cacheProgress, cacheResult>>

\* ---- controller: startAnalysis ------------------------------------------
\* Variant A, up to the existence check: 404 for an unknown video, 409 when a
\* pending or processing analysis of the video exists.
startAnalysisCheckA(v) ==
    /\ variant = "A"
    /\ IF v \notin videos
       THEN /\ response' = Response("start", 0, 404)
            /\ UNCHANGED startPending
       ELSE IF FindAnalyses(v, {"pending", "processing"}) # {}
       THEN /\ response' = Response("start", 0, 409)
            /\ UNCHANGED startPending
       ELSE /\ SumOver(startPending, Videos) < jobBudget
            /\ startPending' = [startPending EXCEPT ![v] = @ + 1]
            /\ response' = NoResponse
    /\ UNCHANGED <<variant, sessionVars, videos, jobBudget, analyses, nextId, detections, queue, nextEntry,
                   events, cacheProgress, cacheResult>>

\* Variant A, from Analysis.create to the response.  outcome "enqueueFail":
\* queue.add throws; "counterFail": incrementCounter throws after the job was
\* added.  Both reach the catch block, which destroys the record.
startAnalysisCreateA(v, p, outcome) ==
    /\ variant = "A"
    /\ startPending[v] > 0
    /\ startPending' = [startPending EXCEPT ![v] = @ - 1]
    /\ IF v \notin videos
       THEN /\ response' = Response("start", 0, 500)
            /\ UNCHANGED <<jobBudget, nextId, analyses, queue>>
       ELSE
       /\ jobBudget' = jobBudget - 1
       /\ nextId' = nextId + 1
       /\ LET created == analyses @@ (nextId :> NewAnalysis(v, p[1])) IN
          CASE outcome = "ok" ->
                 /\ analyses' = created
                 /\ queue' = addVideoAnalysisJobA(queue, nextId, v, p)
                 /\ response' = Response("start", nextId, 201)
            [] outcome = "enqueueFail" ->
                 /\ analyses' = DestroyAnalysis(created, nextId)
                 /\ UNCHANGED queue
                 /\ response' = Response("start", nextId, 500)
            [] outcome = "counterFail" ->
                 /\ analyses' = DestroyAnalysis(created, nextId)
                 /\ queue' = addVideoAnalysisJobA(queue, nextId, v, p)
                 /\ response' = Response("start", nextId, 500)
    /\ UNCHANGED <<variant, sessionVars, videos, detections, nextEntry, events, cacheProgress, cacheResult>>

\* Variant B, up to the existence check: an analysis of the video that is
\* pending, processing or completed is returned as a success.
startAnalysisCheckB(v) ==
    /\ variant = "B"
    /\ IF v \notin videos
       THEN /\ response' = Response("start", 0, 404)
            /\ UNCHANGED startPending
       ELSE IF FindAnalyses(v, {"pending", "processing", "completed"}) # {}
       THEN /\ \E j \in FindAnalyses(v, {"pending", "processing", "completed"}) :
                  response' = Response("start", j, 200)
            /\ UNCHANGED startPending
       ELSE /\ SumOver(startPending, Videos) < jobBudget
            /\ startPending' = [startPending EXCEPT ![v] = @ + 1]
            /\ response' = NoResponse
    /\ UNCHANGED <<variant, sessionVars, videos, jobBudget, analyses, nextId, detections, queue, nextEntry,
                   events, cacheProgress, cacheResult>>

\* Variant B, from Analysis.create to the response.  analyses.video_id
\* references videos(id): the create of an analysis for a video that was
\* deleted after the check is rejected.  The catch block only logs
\* and rethrows: whatever was written before the throw stays.
startAnalysisCreateB(v, p, outcome) ==
    /\ variant = "B"
    /\ startPending[v] > 0
    /\ startPending' = [startPending EXCEPT ![v] = @ - 1]
    /\ IF v \notin videos
       THEN /\ response' = Response("start", 0, 500)
            /\ UNCHANGED <<jobBudget, nextId, analyses, queue, nextEntry, cacheProgress>>
       ELSE
       /\ jobBudget' = jobBudget - 1
       /\ analyses' = analyses @@ (nextId :> NewAnalysis(v, p[1]))
       /\ nextId' = nextId + 1
       /\ CASE outcome = "ok" ->
                 /\ queue' = addVideoAnalysisJobB(queue, nextEntry, nextId, v, p)
                 /\ nextEntry' = nextEntry + 1
                 /\ cacheProgress' = [cacheProgress EXCEPT ![nextId] = 0]
                 /\ response' = Response("start", nextId, 201)
            [] outcome = "enqueueFail" ->
                 /\ UNCHANGED <<queue, nextEntry, cacheProgress>>
                 /\ response' = Response("start", nextId, 500)
            [] outcome = "cacheFail" ->
                 /\ queue' = addVideoAnalysisJobB(queue, nextEntry, nextId, v, p)
                 /\ nextEntry' = nextEntry + 1
                 /\ UNCHANGED cacheProgress
                 /\ response' = Response("start", nextId, 500)
    /\ UNCHANGED <<variant, sessionVars, videos, detections, events, cacheResult>>

\* ---- controller: stopAnalysis -------------------------------------------
\* QueueService.cancelJob of variant A: TRUE when the Bull job exists and
\* job.remove() succeeds; Bull refuses to remove a job that a worker holds.
cancelJobRemovesA(j) == j \in DOMAIN queue /\ queue[j].state # "active"

\* Variant A: the record is written by cancelJob, and only after the removal
\* of the Bull job; a cancelJob that returns false is answered with 500.
stopAnalysisA(j) ==
    /\ variant = "A"
    /\ IF j \notin DOMAIN analyses
       THEN /\ response' = Response("stop", j, 404)
            /\ UNCHANGED <<analyses, queue, cacheProgress, cacheResult>>
       ELSE IF analyses[j].status \notin {"processing", "pending"}
       THEN /\ response' = Response("stop", j, 400)
            /\ UNCHANGED <<analyses, queue, cacheProgress, cacheResult>>
       ELSE IF cancelJobRemovesA(j)
       THEN /\ queue' = Remove(queue, j)
            /\ analyses' = UpdateAnalysis(analyses, j, [status |-> "cancelled"])
            /\ DeleteAnalysisCache(j)
            /\ response' = Response("stop", j, 200)
       ELSE /\ response' = Response("stop", j, 500)
            /\ UNCHANGED <<analyses, queue, cacheProgress, cacheResult>>
    /\ UNCHANGED <<variant, sessionVars, videos, jobBudget, nextId, detections, nextEntry, events, startPending>>

\* Variant B: a completed or failed analysis is answered with success: false
\* (code 400 here), every other one is written as cancelled; the queue is not
\* touched.
stopAnalysisB(j) ==
    /\ variant = "B"
    /\ IF j \notin DOMAIN analyses
       THEN /\ response' = Response("stop", j, 404)
            /\ UNCHANGED <<analyses, cacheProgress, cacheResult>>
       ELSE IF analyses[j].status \in {"completed", "failed"}
       THEN /\ response' = Response("stop", j, 400)
            /\ UNCHANGED <<analyses, cacheProgress, cacheResult>>
       ELSE /\ analyses' = UpdateAnalysis(analyses, j,
                   [status |-> "cancelled", completed_at |-> Now(analyses, j),
                    error_message |-> "Analysis cancelled by user"])
            /\ DeleteAnalysisCache(j)
            /\ response' = Response("stop", j, 200)
    /\ UNCHANGED <<variant, sessionVars, videos, jobBudget, nextId, detections, queue, nextEntry, events, startPending>>

\* retryAnalysis with the detections destroyed before the status check.
retryAnalysisClearsFirst(j) ==
    /\ variant = "A"
    /\ IF j \notin DOMAIN analyses
       THEN /\ response' = Response("retry", j, 404)
            /\ UNCHANGED <<analyses, detections, queue, cacheProgress, cacheResult>>
       ELSE IF analyses[j].status # "failed"
       THEN /\ response' = Response("retry", j, 400)
            /\ detections' = {d \in detections : d.analysis_id # j}
            /\ UNCHANGED <<analyses, queue, cacheProgress, cacheResult>>
       ELSE /\ analyses' = UpdateAnalysis(analyses, j,
                   [status |-> "pending", progress |-> 0,
                    error_message |-> Null, completed_at |-> NullInt])
            /\ detections' = {d \in detections : d.analysis_id # j}
            /\ queue' = MarkRetried(addVideoAnalysisJobA(queue, j, analyses[j].video_id,
                            <<analyses[j].confidence_threshold, 1>>), j)
            /\ DeleteAnalysisCache(j)
            /\ response' = Response("retry", j, 200)
    /\ UNCHANGED <<variant, sessionVars, videos, jobBudget, nextId, nextEntry, events, startPending>>

\* retryAnalysis without the destroy of the earlier detections.
retryAnalysisKeepsDetections(j) ==
    /\ variant = "A"
    /\ IF j \notin DOMAIN analyses
       THEN /\ response' = Response("retry", j, 404)
            /\ UNCHANGED <<analyses, detections, queue, cacheProgress, cacheResult>>
       ELSE IF analyses[j].status # "failed"
       THEN /\ response' = Response("retry", j, 400)
            /\ UNCHANGED <<analyses, detections, queue, cacheProgress, cacheResult>>
       ELSE /\ analyses' = UpdateAnalysis(analyses, j,
                   [status |-> "pending", progress |-> 0,
                    error_message |-> Null, completed_at |-> NullInt])
            /\ UNCHANGED detections
            /\ queue' = MarkRetried(addVideoAnalysisJobA(queue, j, analyses[j].video_id,
                            <<analyses[j].confidence_threshold, 1>>), j)
            /\ DeleteAnalysisCache(j)
            /\ response' = Response("retry", j, 200)
    /\ UNCHANGED <<variant, sessionVars, videos, jobBudget, nextId, nextEntry, events, startPending>>

\* ---- controller: getAnalysis ----------------------------------------------
\* The detections of an analysis.
JobRows(j) == {d \in detections : d.analysis_id = j}

\* The result object built from the record and its detections.
AnalysisView(j) ==
    [kind |-> "view", status |-> analyses[j].status, progress |-> analyses[j].progress,
     completedAt |-> analyses[j].completed_at, totalFrames |-> analyses[j].total_frames,
     violentFrames |-> analyses[j].violent_frames,
     errorMessage |-> analyses[j].error_message, detections |-> JobRows(j)]

GetResponse(j, code, cached, data) ==
    [op |-> "get", target |-> j, code |-> code, cached |-> cached, data |-> data]

\* getAnalysis that answers from the cache only.
getAnalysisCacheOnly(j) ==
    /\ IF cacheResult[j] # NoResult
       THEN response' = GetResponse(j, 200, TRUE, cacheResult[j])
       ELSE response' = GetResponse(j, 404, FALSE, NoResult)
    /\ UNCHANGED <<variant, sessionVars, videos, jobBudget, analyses, nextId, detections, queue, nextEntry,
                   events, cacheProgress, cacheResult, startPending>>

\* Both variants: a truthy cached result is the answer; otherwise the record
\* is read with its detections, a missing record is a 404, and the result of
\* a completed analysis is cached.
getAnalysis(j) ==
    /\ IF cacheResult[j] # NoResult
       THEN /\ response' = GetResponse(j, 200, TRUE, cacheResult[j])
            /\ UNCHANGED cacheResult
       ELSE IF j \notin DOMAIN analyses
       THEN /\ response' = GetResponse(j, 404, FALSE, NoResult)
            /\ UNCHANGED cacheResult
       ELSE /\ response' = GetResponse(j, 200, FALSE, AnalysisView(j))
            /\ cacheResult' = IF analyses[j].status = "completed"
                              THEN [cacheResult EXCEPT ![j] = AnalysisView(j)]
                              ELSE cacheResult
    /\ UNCHANGED <<variant, sessionVars, videos, jobBudget, analyses, nextId, detections, queue, nextEntry,
                   events, cacheProgress, startPending>>

\* ---- controller: deleteAnalysis -------------------------------------------
\* Variant A: cancelJob for a pending or processing analysis, its result
\* ignored; then analysis.destroy(), which takes the detections with it
\* (ON DELETE CASCADE), and the cache keys.
deleteAnalysisA(j) ==
    /\ variant = "A"
    /\ IF j \notin DOMAIN analyses
       THEN /\ response' = Response("delete", j, 404)
            /\ UNCHANGED <<analyses, detections, queue, cacheProgress, cacheResult>>
       ELSE /\ queue' = IF analyses[j].status \in {"processing", "pending"}
                           /\ cancelJobRemovesA(j)
                        THEN Remove(queue, j) ELSE queue
            /\ analyses' = DestroyAnalysis(analyses, j)
            /\ detections' = detections \ JobRows(j)
            /\ DeleteAnalysisCache(j)
            /\ response' = Response("delete", j, 200)
    /\ UNCHANGED <<variant, sessionVars, videos, jobBudget, nextId, nextEntry, events, startPending>>

\* Variant B: analysis.destroy() and the cache keys; the queue is not touched.
deleteAnalysisB(j) ==
    /\ variant = "B"
    /\ IF j \notin DOMAIN analyses
       THEN /\ response' = Response("delete", j, 404)
            /\ UNCHANGED <<analyses, detections, cacheProgress, cacheResult>>
       ELSE /\ analyses' = DestroyAnalysis(analyses, j)
            /\ detections' = detections \ JobRows(j)
            /\ DeleteAnalysisCache(j)
            /\ response' = Response("delete", j, 200)
    /\ UNCHANGED <<variant, sessionVars, videos, jobBudget, nextId, queue, nextEntry, events, startPending>>

\* ---- controller: deleteVideo ----------------------------------------------
\* Video.destroy() with the cascades of the schema: the analyses of the video
\* and their detections go with it.  Only the cache keys of the video are
\* deleted, and the queue is not touched.
CascadeAnalyses(tbl, v) ==
    [j \in {i \in DOMAIN tbl : tbl[i].video_id # v} |-> tbl[j]]

\* deleteVideo with a schema that lacks the cascade from videos to analyses.
deleteVideoNoCascade(v) ==
    /\ IF v \notin videos
       THEN /\ response' = Response("deleteVideo", 0, 404)
            /\ UNCHANGED <<videos, analyses, detections>>
       ELSE /\ videos' = videos \ {v}
            /\ UNCHANGED <<analyses, detections>>
            /\ response' = Response("deleteVideo", 0, 200)
    /\ UNCHANGED <<variant, sessionVars, jobBudget, nextId, queue, nextEntry, events,
                   cacheProgress, cacheResult, startPending>>

deleteVideo(v) ==
    /\ IF v \notin videos
       THEN /\ response' = Response("deleteVideo", 0, 404)
            /\ UNCHANGED <<videos, analyses, detections>>
       ELSE /\ videos' = videos \ {v}
            /\ analyses' = CascadeAnalyses(analyses, v)
            /\ detections' = {d \in detections :
                                 d.analysis_id \in DOMAIN CascadeAnalyses(analyses, v)}
            /\ response' = Response("deleteVideo", 0, 200)
    /\ UNCHANGED <<variant, sessionVars, jobBudget, nextId, queue, nextEntry, events,
                   cacheProgress, cacheResult, startPending>>

\* ---- controller: retryAnalysis (variant A only) ---------------------------
retryAnalysis(j) ==
    /\ variant = "A"
    /\ IF j \notin DOMAIN analyses
       THEN /\ response' = Response("retry", j, 404)
            /\ UNCHANGED <<analyses, detections, queue, cacheProgress, cacheResult>>
       ELSE IF analyses[j].status # "failed"
       THEN /\ response' = Response("retry", j, 400)
            /\ UNCHANGED <<analyses, detections, queue, cacheProgress, cacheResult>>
       ELSE /\ analyses' = UpdateAnalysis(analyses, j,
                   [status |-> "pending", progress |-> 0,
                    error_message |-> Null, completed_at |-> NullInt])
            /\ detections' = {d \in detections : d.analysis_id # j}
            /\ queue' = MarkRetried(addVideoAnalysisJobA(queue, j, analyses[j].video_id,
                            <<analyses[j].confidence_threshold, 1>>), j)
            /\ DeleteAnalysisCache(j)
            /\ response' = Response("retry", j, 200)
    /\ UNCHANGED <<variant, sessionVars, videos, jobBudget, nextId, nextEntry, events, startPending>>


\* ---- analysis engine ------------------------------------------------------
\* What GET /analysis/{id} can answer on one poll: a transport error, a 404,
\* or a status document.  total_frames and violent_frames are optional while
\* the engine works; detections are reported with the completed status.
EngineAnswers ==
    {[kind |-> "neterr"], [kind |-> "notfound"]}
    \cup {[kind |-> "ok", status |-> st, progress |-> p, total_frames |-> tf,
           violent_frames |-> Undefined, detections |-> 0, error_message |-> Null] :
             st \in {"processing"}, p \in ProgressValues,
             tf \in {Undefined, TotalFramesOfEngine}}
    \cup {[kind |-> "ok", status |-> "completed", progress |-> p,
           total_frames |-> TotalFramesOfEngine, violent_frames |-> k,
           detections |-> k, error_message |-> Null] :
             p \in ProgressValues, k \in 0..MaxDet}
    \cup {[kind |-> "ok", status |-> "failed", progress |-> p,
           total_frames |-> Undefined, violent_frames |-> Undefined,
           detections |-> 0, error_message |-> m] :
             p \in ProgressValues, m \in EngineMessages}

\* The completed status document as the handler returns it; the fields the
\* listeners and the cache readers use.
Document(ans) ==
    [kind |-> "result", total_frames |-> ans.total_frames,
     violent_frames |-> ans.violent_frames, detections |-> ans.detections]

\* The n-th detection document of the engine's answer, in the wire format of
\* the engine protocol (snake_case keys).  run identifies the handler run
\* that received it.
EngineDetection(run, n) ==
    [timestamp_seconds |-> n, confidence_score |-> 90, frame_number |-> n, run |-> run]

Field(d, name) == IF name \in DOMAIN d THEN d[name] ELSE Undefined

Run(e) == <<e, queue[e].attemptsMade + 1>>

\* ViolenceDetection.bulkCreate(rows): one INSERT; timestamp_seconds,
\* confidence_score and frame_number are NOT NULL.
ValidRow(r) ==
    /\ r.timestamp_seconds # Undefined
    /\ r.confidence_score # Undefined
    /\ r.frame_number # Undefined

\* error.message || default
MessageOr(m, d) == IF m = Null THEN d ELSE m

\* ---- Bull job lifecycle ---------------------------------------------------
Event(type, j, p, m, r) ==
    [type |-> type, job |-> j, progress |-> p, message |-> m, result |-> r]

CanEmit(ev) == Cardinality(events \cup {ev}) <= MaxEvents

\* MoveToFailed with every failed attempt followed by another one.
MoveToFailedKeepsRetrying(q, e, m) ==
    [q EXCEPT ![e] = [@ EXCEPT !.attemptsMade = @ + 1, !.state = "delayed",
                               !.failedReason = m, !.pc = "idle"]]

\* The handler threw: Bull counts the attempt and either schedules the next
\* one with backoff or moves the job to the failed set.
MoveToFailed(q, e, m) ==
    [q EXCEPT ![e] = [@ EXCEPT !.attemptsMade = @ + 1,
                               !.state = IF q[e].attemptsMade + 1 < Attempts
                                         THEN "delayed" ELSE "failed",
                               !.failedReason = m, !.pc = "idle"]]

\* The handler returned.
MoveToCompleted(q, e) ==
    [q EXCEPT ![e] = [@ EXCEPT !.state = "completed", !.pc = "idle"]]

\* ---- job handler: processVideoAnalysis -------------------------------------
\* processVideoAnalysisBegin of a queue whose processor takes every job that
\* is due, whatever the number of jobs in flight.
processVideoAnalysisBeginUnlimited(e) ==
    /\ e \in DOMAIN queue
    /\ queue[e].state \in {"waiting", "delayed"}
    /\ queue' = [queue EXCEPT ![e] = [@ EXCEPT !.state = "active", !.pc = "start",
                                               !.lastProgress = 0, !.remoteStatus = "none",
                                               !.result = NoResult, !.rerun = queue[e].retried]]
    /\ analyses' = UpdateAnalysis(analyses, queue[e].job,
                       [status |-> "processing", progress |-> 0])
    /\ response' = NoResponse
    /\ UNCHANGED <<variant, sessionVars, videos, jobBudget, nextId, detections, nextEntry, events,
                   cacheProgress, cacheResult, startPending>>

\* A worker takes the job and runs the handler up to its first write:
\* Analysis.update({status: 'processing', progress: 0}).
processVideoAnalysisBegin(e) ==
    /\ e \in DOMAIN queue
    /\ queue[e].state \in {"waiting", "delayed"}
    /\ Cardinality(ActiveEntries) < Concurrency
    /\ queue' = [queue EXCEPT ![e] = [@ EXCEPT !.state = "active", !.pc = "start",
                                               !.lastProgress = 0, !.remoteStatus = "none",
                                               !.result = NoResult, !.rerun = queue[e].retried]]
    /\ analyses' = UpdateAnalysis(analyses, queue[e].job,
                       [status |-> "processing", progress |-> 0])
    /\ response' = NoResponse
    /\ UNCHANGED <<variant, sessionVars, videos, jobBudget, nextId, detections, nextEntry, events,
                   cacheProgress, cacheResult, startPending>>

\* The catch block of variant A's handler.
HandlerCatchA(tbl, j, m) ==
    UpdateAnalysis(tbl, j, [status |-> "failed", error_message |-> m])

\* Variant A: video lookup, presigned url and POST /analysis/start.
startRemoteAnalysisA(e, ok) ==
    /\ variant = "A"
    /\ e \in DOMAIN queue
    /\ queue[e].pc = "start"
    /\ LET found == queue[e].videoId \in videos
           m == IF found THEN "Network Error" ELSE "Video not found"
       IN
       IF ok /\ found
       THEN /\ queue' = [queue EXCEPT ![e] = [@ EXCEPT !.pc = "poll"]]
            /\ UNCHANGED <<analyses, events>>
       ELSE /\ CanEmit(Event("failed", queue[e].job, 0, m, NoResult))
            /\ analyses' = HandlerCatchA(analyses, queue[e].job, m)
            /\ queue' = MoveToFailed(queue, e, m)
            /\ events' = events \cup {Event("failed", queue[e].job, 0, m, NoResult)}
    /\ response' = NoResponse
    /\ UNCHANGED <<variant, sessionVars, videos, jobBudget, nextId, detections, nextEntry,
                   cacheProgress, cacheResult, startPending>>

\* Variant B: POST /analysis/start; the handler rethrows what it catches.
startRemoteAnalysisB(e, ok) ==
    /\ variant = "B"
    /\ e \in DOMAIN queue
    /\ queue[e].pc = "start"
    /\ IF ok
       THEN /\ queue' = [queue EXCEPT ![e] = [@ EXCEPT !.pc = "poll"]]
            /\ UNCHANGED events
       ELSE /\ CanEmit(Event("failed", queue[e].job, 0, "Network Error", NoResult))
            /\ queue' = MoveToFailed(queue, e, "Network Error")
            /\ events' = events \cup {Event("failed", queue[e].job, 0, "Network Error", NoResult)}
    /\ response' = NoResponse
    /\ UNCHANGED <<variant, sessionVars, videos, jobBudget, analyses, nextId, detections, nextEntry,
                   cacheProgress, cacheResult, startPending>>



\* updateAnalysisProgress of variant A: progress always, total_frames when
\* truthy, violent_frames when defined.
updateAnalysisProgress(tbl, j, p, tf, vf) ==
    LET t1 == UpdateAnalysis(tbl, j, [progress |-> p])
        t2 == IF tf # Undefined /\ tf # 0
              THEN UpdateAnalysis(t1, j, [total_frames |-> tf]) ELSE t1
    IN IF vf # Undefined THEN UpdateAnalysis(t2, j, [violent_frames |-> vf]) ELSE t2

\* saveDetectionResults of variant A: the rows are built from the snake_case
\* keys of the engine's documents.
saveDetectionResults(j, run, k) ==
    {[analysis_id |-> j, run |-> run,
      timestamp_seconds |-> Field(EngineDetection(run, n), "timestamp_seconds"),
      confidence_score |-> Field(EngineDetection(run, n), "confidence_score"),
      frame_number |-> Field(EngineDetection(run, n), "frame_number")] : n \in 1..k}

\* pollTickA whose catch treats a 404 like every other error of a poll: it
\* is logged and the loop goes on.
pollTickASwallowsNotFound(e, ans) ==
    /\ variant = "A"
    /\ e \in DOMAIN queue
    /\ queue[e].pc = "poll"
    /\ response' = NoResponse
    /\ LET j == queue[e].job
           inc == ans.kind = "ok" /\ ans.progress > queue[e].lastProgress
           evP == IF inc THEN {Event("progress", j, ans.progress, Null, NoResult)} ELSE {}
           fk == /\ ans.kind = "ok" /\ ans.status = "completed"
                 /\ ans.detections > 0 /\ j \notin DOMAIN analyses
           evU == IF fk THEN {Event("completed", j, 0, Null, NoResult)} ELSE {}
       IN
       CASE ans.kind \in {"neterr", "notfound"} ->
              UNCHANGED <<analyses, detections, queue, events, cacheProgress>>
         [] ans.kind = "ok" ->
              /\ Cardinality(events \cup evP \cup evU) <= MaxEvents
              /\ events' = events \cup evP \cup evU
              /\ analyses' = IF inc
                             THEN updateAnalysisProgress(analyses, j, ans.progress,
                                       ans.total_frames, ans.violent_frames)
                             ELSE analyses
              /\ cacheProgress' = IF inc THEN [cacheProgress EXCEPT ![j] = ans.progress]
                                  ELSE cacheProgress
              /\ IF fk
                 THEN /\ UNCHANGED detections
                      /\ queue' = MoveToCompleted(
                             [queue EXCEPT ![e] = [@ EXCEPT
                                 !.lastProgress = IF inc THEN ans.progress ELSE @,
                                 !.remoteStatus = ans.status]], e)
                 ELSE IF ans.status = "completed"
                 THEN /\ detections' = detections \cup
                             saveDetectionResults(j, Run(e), ans.detections)
                      /\ queue' = [queue EXCEPT ![e] = [@ EXCEPT
                             !.lastProgress = IF inc THEN ans.progress ELSE @,
                             !.remoteStatus = ans.status,
                             !.pc = "finalize", !.result = Document(ans)]]
                 ELSE /\ UNCHANGED detections
                      /\ queue' = [queue EXCEPT ![e] = [@ EXCEPT
                             !.lastProgress = IF inc THEN ans.progress ELSE @,
                             !.remoteStatus = ans.status]]
    /\ UNCHANGED <<variant, sessionVars, videos, jobBudget, nextId, nextEntry, cacheResult, startPending>>

\* pollTickA whose first attempt throws to Bull right after the detection
\* insert.
pollTickAThrowsAfterSave(e, ans) ==
    /\ variant = "A"
    /\ e \in DOMAIN queue
    /\ queue[e].pc = "poll"
    /\ response' = NoResponse
    /\ LET j == queue[e].job
           inc == ans.kind = "ok" /\ ans.progress > queue[e].lastProgress
           evP == IF inc THEN {Event("progress", j, ans.progress, Null, NoResult)} ELSE {}
           fk == /\ ans.kind = "ok" /\ ans.status = "completed"
                 /\ ans.detections > 0 /\ j \notin DOMAIN analyses
           evU == IF fk THEN {Event("completed", j, 0, Null, NoResult)} ELSE {}
       IN
       CASE ans.kind = "neterr" ->
              UNCHANGED <<analyses, detections, queue, events, cacheProgress>>
         [] ans.kind = "notfound" ->
              LET ev == Event("failed", j, 0, "Analysis not found in AI service", NoResult) IN
              /\ CanEmit(ev)
              /\ analyses' = HandlerCatchA(analyses, j, "Analysis not found in AI service")
              /\ queue' = MoveToFailed(queue, e, "Analysis not found in AI service")
              /\ events' = events \cup {ev}
              /\ UNCHANGED <<detections, cacheProgress>>
         [] ans.kind = "ok" ->
              /\ Cardinality(events \cup evP \cup evU) <= MaxEvents
              /\ events' = events \cup evP \cup evU
              /\ analyses' = IF inc
                             THEN updateAnalysisProgress(analyses, j, ans.progress,
                                       ans.total_frames, ans.violent_frames)
                             ELSE analyses
              /\ cacheProgress' = IF inc THEN [cacheProgress EXCEPT ![j] = ans.progress]
                                  ELSE cacheProgress
              /\ IF fk
                 THEN /\ UNCHANGED detections
                      /\ queue' = MoveToCompleted(
                             [queue EXCEPT ![e] = [@ EXCEPT
                                 !.lastProgress = IF inc THEN ans.progress ELSE @,
                                 !.remoteStatus = ans.status]], e)
                 ELSE IF ans.status = "completed"
                 THEN /\ detections' = detections \cup
                             saveDetectionResults(j, Run(e), ans.detections)
                      /\ queue' = IF queue[e].attemptsMade = 0 /\ ans.detections > 0
                                  THEN MoveToFailed(queue, e, "Network Error")
                                  ELSE [queue EXCEPT ![e] = [@ EXCEPT
                             !.lastProgress = IF inc THEN ans.progress ELSE @,
                             !.remoteStatus = ans.status,
                             !.pc = "finalize", !.result = Document(ans)]]
                 ELSE /\ UNCHANGED detections
                      /\ queue' = [queue EXCEPT ![e] = [@ EXCEPT
                             !.lastProgress = IF inc THEN ans.progress ELSE @,
                             !.remoteStatus = ans.status]]
    /\ UNCHANGED <<variant, sessionVars, videos, jobBudget, nextId, nextEntry, cacheResult, startPending>>

\* One pass of the while loop of variant A's handler, from the GET to the
\* detection insert.  Whatever is thrown inside the loop body is caught by the
\* loop's own catch, which rethrows only for a 404.
\* violence_detections.analysis_id references analyses(id): the insert for an
\* analysis that is no longer stored throws, after completed was set, so the
\* loop ends and the handler returns undefined.
pollTickA(e, ans) ==
    /\ variant = "A"
    /\ e \in DOMAIN queue
    /\ queue[e].pc = "poll"
    /\ response' = NoResponse
    /\ LET j == queue[e].job
           inc == ans.kind = "ok" /\ ans.progress > queue[e].lastProgress
           evP == IF inc THEN {Event("progress", j, ans.progress, Null, NoResult)} ELSE {}
           fk == /\ ans.kind = "ok" /\ ans.status = "completed"
                 /\ ans.detections > 0 /\ j \notin DOMAIN analyses
           evU == IF fk THEN {Event("completed", j, 0, Null, NoResult)} ELSE {}
       IN
       CASE ans.kind = "neterr" ->
              UNCHANGED <<analyses, detections, queue, events, cacheProgress>>
         [] ans.kind = "notfound" ->
              LET ev == Event("failed", j, 0, "Analysis not found in AI service", NoResult) IN
              /\ CanEmit(ev)
              /\ analyses' = HandlerCatchA(analyses, j, "Analysis not found in AI service")
              /\ queue' = MoveToFailed(queue, e, "Analysis not found in AI service")
              /\ events' = events \cup {ev}
              /\ UNCHANGED <<detections, cacheProgress>>
         [] ans.kind = "ok" ->
              /\ Cardinality(events \cup evP \cup evU) <= MaxEvents
              /\ events' = events \cup evP \cup evU
              /\ analyses' = IF inc
                             THEN updateAnalysisProgress(analyses, j, ans.progress,
                                       ans.total_frames, ans.violent_frames)
                             ELSE analyses
              /\ cacheProgress' = IF inc THEN [cacheProgress EXCEPT ![j] = ans.progress]
                                  ELSE cacheProgress
              /\ IF fk
                 THEN /\ UNCHANGED detections
                      /\ queue' = MoveToCompleted(
                             [queue EXCEPT ![e] = [@ EXCEPT
                                 !.lastProgress = IF inc THEN ans.progress ELSE @,
                                 !.remoteStatus = ans.status]], e)
                 ELSE IF ans.status = "completed"
                 THEN /\ detections' = detections \cup
                             saveDetectionResults(j, Run(e), ans.detections)
                      /\ queue' = [queue EXCEPT ![e] = [@ EXCEPT
                             !.lastProgress = IF inc THEN ans.progress ELSE @,
                             !.remoteStatus = ans.status,
                             !.pc = "finalize", !.result = Document(ans)]]
                 ELSE /\ UNCHANGED detections
                      /\ queue' = [queue EXCEPT ![e] = [@ EXCEPT
                             !.lastProgress = IF inc THEN ans.progress ELSE @,
                             !.remoteStatus = ans.status]]
    /\ UNCHANGED <<variant, sessionVars, videos, jobBudget, nextId, nextEntry, cacheResult, startPending>>

\* Variant A: the final Analysis.update and the return of the handler.
finalizeA(e) ==
    /\ variant = "A"
    /\ e \in DOMAIN queue
    /\ queue[e].pc = "finalize"
    /\ CanEmit(Event("completed", queue[e].job, 0, Null, queue[e].result))
    /\ analyses' = UpdateAnalysis(analyses, queue[e].job,
           [status |-> "completed", progress |-> 100,
            completed_at |-> Now(analyses, queue[e].job),
            total_frames |-> queue[e].result.total_frames,
            violent_frames |-> queue[e].result.violent_frames])
    /\ queue' = MoveToCompleted(queue, e)
    /\ events' = events \cup {Event("completed", queue[e].job, 0, Null, queue[e].result)}
    /\ response' = NoResponse
    /\ UNCHANGED <<variant, sessionVars, videos, jobBudget, nextId, detections, nextEntry,
                   cacheProgress, cacheResult, startPending>>

\* pollAIAnalysis of variant B: one pass of its loop.  Every error ends the
\* loop; a changed progress value is reported with job.progress.
pollAIAnalysis(e, ans) ==
    /\ variant = "B"
    /\ e \in DOMAIN queue
    /\ queue[e].pc = "poll"
    /\ response' = NoResponse
    /\ LET j == queue[e].job
           chg == ans.kind = "ok" /\ ans.progress # queue[e].lastProgress
           evP == IF chg THEN {Event("progress", j, ans.progress, Null, NoResult)} ELSE {}
           msg == CASE ans.kind = "neterr" -> "Network Error"
                    [] ans.kind = "notfound" -> "AI analysis not found"
                    [] OTHER -> MessageOr(ans.error_message, "AI analysis failed")
           evF == {Event("failed", j, 0, msg, NoResult)}
       IN
       IF ans.kind # "ok" \/ ans.status = "failed"
       THEN /\ Cardinality(events \cup evP \cup evF) <= MaxEvents
            /\ events' = events \cup evP \cup evF
            /\ queue' = MoveToFailed([queue EXCEPT ![e] = [@ EXCEPT
                   !.lastProgress = IF chg THEN ans.progress ELSE @,
                   !.remoteStatus = IF ans.kind = "ok" THEN ans.status ELSE @]], e, msg)
       ELSE /\ Cardinality(events \cup evP) <= MaxEvents
            /\ events' = events \cup evP
            /\ queue' = [queue EXCEPT ![e] = [@ EXCEPT
                   !.lastProgress = ans.progress,
                   !.remoteStatus = ans.status,
                   !.pc = IF ans.status = "completed" THEN "store" ELSE "poll",
                   !.result = IF ans.status = "completed" THEN Document(ans) ELSE @]]
    /\ UNCHANGED <<variant, sessionVars, videos, jobBudget, analyses, nextId, detections, nextEntry,
                   cacheProgress, cacheResult, startPending>>

\* The rows storeAnalysisResults of variant B builds: it reads the camelCase
\* keys timestampSeconds, confidenceScore and frameNumber of each document.
storeAnalysisRows(j, run, k) ==
    {[analysis_id |-> j, run |-> run,
      timestamp_seconds |-> Field(EngineDetection(run, n), "timestampSeconds"),
      confidence_score |-> Field(EngineDetection(run, n), "confidenceScore"),
      frame_number |-> Field(EngineDetection(run, n), "frameNumber")] : n \in 1..k}

\* Variant B: storeAnalysisResults and the return of the handler.
storeAnalysisResults(e) ==
    /\ variant = "B"
    /\ e \in DOMAIN queue
    /\ queue[e].pc = "store"
    /\ response' = NoResponse
    /\ LET j == queue[e].job
           r == queue[e].result
           rows == storeAnalysisRows(j, Run(e), r.detections)
           evF == Event("failed", j, 0, "notNull Violation", NoResult)
           evC == Event("completed", j, 0, Null, r)
       IN
       /\ analyses' = UpdateAnalysis(analyses, j,
              [total_frames |-> r.total_frames, violent_frames |-> r.violent_frames])
       /\ IF (\A row \in rows : ValidRow(row)) /\ (rows = {} \/ j \in DOMAIN analyses)
          THEN /\ CanEmit(evC)
               /\ detections' = detections \cup rows
               /\ queue' = MoveToCompleted(queue, e)
               /\ events' = events \cup {evC}
          ELSE /\ CanEmit(evF)
               /\ UNCHANGED detections
               /\ queue' = MoveToFailed(queue, e, "notNull Violation")
               /\ events' = events \cup {evF}
    /\ UNCHANGED <<variant, sessionVars, videos, jobBudget, nextId, nextEntry, cacheProgress, cacheResult, startPending>>

\* ---- queue event listeners -----------------------------------------------
\* Variant A, 'progress': updateAnalysisProgress(analysisId, progress).
onProgressA(ev) ==
    /\ variant = "A"
    /\ ev \in events /\ ev.type = "progress"
    /\ events' = events \ {ev}
    /\ analyses' = updateAnalysisProgress(analyses, ev.job, ev.progress, Undefined, Undefined)
    /\ cacheProgress' = [cacheProgress EXCEPT ![ev.job] = ev.progress]
    /\ response' = NoResponse
    /\ UNCHANGED <<variant, sessionVars, videos, jobBudget, nextId, detections, queue, nextEntry, cacheResult, startPending>>

\* Variant A, 'completed': handleJobCompletion.
handleJobCompletion(ev) ==
    /\ variant = "A"
    /\ ev \in events /\ ev.type = "completed"
    /\ events' = events \ {ev}
    /\ cacheResult' = [cacheResult EXCEPT ![ev.job] = ev.result]
    /\ response' = NoResponse
    /\ UNCHANGED <<variant, sessionVars, videos, jobBudget, analyses, nextId, detections, queue, nextEntry,
                   cacheProgress, startPending>>

\* Variant A, 'failed': handleJobFailure.
handleJobFailure(ev) ==
    /\ variant = "A"
    /\ ev \in events /\ ev.type = "failed"
    /\ events' = events \ {ev}
    /\ analyses' = UpdateAnalysis(analyses, ev.job,
           [status |-> "failed", error_message |-> ev.message])
    /\ response' = NoResponse
    /\ UNCHANGED <<variant, sessionVars, videos, jobBudget, nextId, detections, queue, nextEntry,
                   cacheProgress, cacheResult, startPending>>

\* Variant B, 'progress': the progress cache is written.
onProgressB(ev) ==
    /\ variant = "B"
    /\ ev \in events /\ ev.type = "progress"
    /\ events' = events \ {ev}
    /\ cacheProgress' = [cacheProgress EXCEPT ![ev.job] = ev.progress]
    /\ response' = NoResponse
    /\ UNCHANGED <<variant, sessionVars, videos, jobBudget, analyses, nextId, detections, queue, nextEntry,
                   cacheResult, startPending>>

\* Variant B, 'completed'.
onCompletedB(ev) ==
    /\ variant = "B"
    /\ ev \in events /\ ev.type = "completed"
    /\ events' = events \ {ev}
    /\ analyses' = UpdateAnalysis(analyses, ev.job,
           [status |-> "completed", progress |-> 100,
            completed_at |-> Now(analyses, ev.job)])
    /\ cacheResult' = [cacheResult EXCEPT ![ev.job] = ev.result]
    /\ response' = NoResponse
    /\ UNCHANGED <<variant, sessionVars, videos, jobBudget, nextId, detections, queue, nextEntry,
                   cacheProgress, startPending>>

\* onFailedB without the error message in its update.
onFailedBStatusOnly(ev) ==
    /\ variant = "B"
    /\ ev \in events /\ ev.type = "failed"
    /\ events' = events \ {ev}
    /\ analyses' = UpdateAnalysis(analyses, ev.job,
           [status |-> "failed", completed_at |-> Now(analyses, ev.job)])
    /\ response' = NoResponse
    /\ UNCHANGED <<variant, sessionVars, videos, jobBudget, nextId, detections, queue, nextEntry,
                   cacheProgress, cacheResult, startPending>>

\* Variant B, 'failed'.
onFailedB(ev) ==
    /\ variant = "B"
    /\ ev \in events /\ ev.type = "failed"
    /\ events' = events \ {ev}
    /\ analyses' = UpdateAnalysis(analyses, ev.job,
           [status |-> "failed", error_message |-> ev.message,
            completed_at |-> Now(analyses, ev.job)])
    /\ response' = NoResponse
    /\ UNCHANGED <<variant, sessionVars, videos, jobBudget, nextId, detections, queue, nextEntry,
                   cacheProgress, cacheResult, startPending>>

\* The analysis ids requests are made with: the ids of the stored analyses,
\* and the first id, which is unknown until it is assigned.
RequestIds == DOMAIN analyses \cup {1}

\* ---- specification --------------------------------------------------------
Next ==
    \/ \E v \in Videos \cup {UnknownVideo} : startAnalysisCheckA(v)
    \/ \E v \in Videos, p \in Params, o \in {"ok", "enqueueFail", "counterFail"} :
           startAnalysisCreateA(v, p, o)
    \/ \E v \in Videos \cup {UnknownVideo} : startAnalysisCheckB(v)
    \/ \E v \in Videos, p \in Params, o \in {"ok", "enqueueFail", "cacheFail"} :
           startAnalysisCreateB(v, p, o)
    \/ \E j \in RequestIds : stopAnalysisA(j)
    \/ \E j \in RequestIds : stopAnalysisB(j)
    \/ \E j \in RequestIds : retryAnalysis(j)
    \/ \E j \in RequestIds : getAnalysis(j)
    \/ \E j \in RequestIds : deleteAnalysisA(j)
    \/ \E j \in RequestIds : deleteAnalysisB(j)
    \/ \E v \in Videos \cup {UnknownVideo} : deleteVideo(v)
    \/ \E e \in DOMAIN queue : processVideoAnalysisBegin(e)
    \/ \E e \in DOMAIN queue, ok \in BOOLEAN : startRemoteAnalysisA(e, ok)
    \/ \E e \in DOMAIN queue, ok \in BOOLEAN : startRemoteAnalysisB(e, ok)
    \/ \E e \in DOMAIN queue, ans \in EngineAnswers : pollTickA(e, ans)
    \/ \E e \in DOMAIN queue : finalizeA(e)
    \/ \E e \in DOMAIN queue, ans \in EngineAnswers : pollAIAnalysis(e, ans)
    \/ \E e \in DOMAIN queue : storeAnalysisResults(e)
    \/ \E ev \in events : onProgressA(ev)
    \/ \E ev \in events : handleJobCompletion(ev)
    \/ \E ev \in events : handleJobFailure(ev)
    \/ \E ev \in events : onProgressB(ev)
    \/ \E ev \in events : onCompletedB(ev)
    \/ \E ev \in events : onFailedB(ev)

Spec == Init /\ [][Next]_vars

\* The admission path alone, with room for a second analysis: the controller
\* operations that create and cancel analyses and the worker's first write.
InitAdmission ==
    /\ variant \in {"A", "B"}
    /\ clock = 0
    /\ cleanedAt = 0
    /\ sessions = [s \in SessionIds |-> NoSession]
    /\ videos = Videos
    /\ jobBudget = MaxRaceJobs
    /\ analyses = <<>>
    /\ nextId = 1
    /\ detections = {}
    /\ queue = <<>>
    /\ nextEntry = 1
    /\ events = {}
    /\ cacheProgress = [j \in JobIds |-> NullInt]
    /\ cacheResult = [j \in JobIds |-> NoResult]
    /\ startPending = [v \in Videos |-> 0]
    /\ response = NoResponse

NextAdmission ==
    \/ \E v \in Videos \cup {UnknownVideo} : startAnalysisCheckA(v)
    \/ \E v \in Videos, p \in Params, o \in {"ok", "enqueueFail", "counterFail"} :
           startAnalysisCreateA(v, p, o)
    \/ \E v \in Videos \cup {UnknownVideo} : startAnalysisCheckB(v)
    \/ \E v \in Videos, p \in Params, o \in {"ok", "enqueueFail", "cacheFail"} :
           startAnalysisCreateB(v, p, o)
    \/ \E j \in RequestIds : stopAnalysisA(j)
    \/ \E j \in RequestIds : stopAnalysisB(j)
    \/ \E e \in DOMAIN queue : processVideoAnalysisBegin(e)

SpecAdmission == InitAdmission /\ [][NextAdmission]_vars

\* The backoff before the next attempt of a job (2000 ms, doubling) outlasts
\* the listeners of the events emitted up to the failure: a delayed entry is
\* taken by a worker only when the pending events of its job are handled.
EventsHandled(e) ==
    queue[e].state = "delayed" => \A ev \in events : ev.job # queue[e].job

NextInOrder ==
    \/ \E v \in Videos \cup {UnknownVideo} : startAnalysisCheckA(v)
    \/ \E v \in Videos, p \in Params, o \in {"ok", "enqueueFail", "counterFail"} :
           startAnalysisCreateA(v, p, o)
    \/ \E v \in Videos \cup {UnknownVideo} : startAnalysisCheckB(v)
    \/ \E v \in Videos, p \in Params, o \in {"ok", "enqueueFail", "cacheFail"} :
           startAnalysisCreateB(v, p, o)
    \/ \E j \in RequestIds : stopAnalysisA(j)
    \/ \E j \in RequestIds : stopAnalysisB(j)
    \/ \E j \in RequestIds : retryAnalysis(j)
    \/ \E j \in RequestIds : getAnalysis(j)
    \/ \E j \in RequestIds : deleteAnalysisA(j)
    \/ \E j \in RequestIds : deleteAnalysisB(j)
    \/ \E v \in Videos \cup {UnknownVideo} : deleteVideo(v)
    \/ \E e \in DOMAIN queue : EventsHandled(e) /\ processVideoAnalysisBegin(e)
    \/ \E e \in DOMAIN queue, ok \in BOOLEAN : startRemoteAnalysisA(e, ok)
    \/ \E e \in DOMAIN queue, ok \in BOOLEAN : startRemoteAnalysisB(e, ok)
    \/ \E e \in DOMAIN queue, ans \in EngineAnswers : pollTickA(e, ans)
    \/ \E e \in DOMAIN queue : finalizeA(e)
    \/ \E e \in DOMAIN queue, ans \in EngineAnswers : pollAIAnalysis(e, ans)
    \/ \E e \in DOMAIN queue : storeAnalysisResults(e)
    \/ \E ev \in events : onProgressA(ev)
    \/ \E ev \in events : handleJobCompletion(ev)
    \/ \E ev \in events : handleJobFailure(ev)
    \/ \E ev \in events : onProgressB(ev)
    \/ \E ev \in events : onCompletedB(ev)
    \/ \E ev \in events : onFailedB(ev)

SpecInOrder == Init /\ [][NextInOrder]_vars

\* The worker pool with more jobs queued than it has slots: the state after
\* MaxQueued accepted startAnalysis requests, one per video, where the last
\* request has just been answered and the first Attempts - 1 runs of the
\* earlier ones failed at the engine's start request, listeners run; from
\* there the workers, the first step of the handler and the 'failed'
\* listeners.
VideoOf(j) == "v" \o ToString(j)

FailedTwice(j) ==
    [NewAnalysis(VideoOf(j), 70) EXCEPT
         !.status = "failed", !.error_message = "Network Error",
         !.completed_at = IF variant = "B" THEN MaxTime ELSE NullInt]

InitWorkers ==
    /\ variant \in {"A", "B"}
    /\ clock = 0
    /\ cleanedAt = 0
    /\ sessions = [s \in SessionIds |-> NoSession]
    /\ videos = {VideoOf(j) : j \in 1..MaxQueued}
    /\ jobBudget = 0
    /\ analyses = [j \in 1..MaxQueued |->
                      IF j < MaxQueued THEN FailedTwice(j)
                      ELSE NewAnalysis(VideoOf(j), 70)]
    /\ nextId = MaxQueued + 1
    /\ detections = {}
    /\ queue = [j \in 1..MaxQueued |->
                   IF j < MaxQueued
                   THEN [NewEntry(j, VideoOf(j), <<70, 1>>) EXCEPT !.state = "delayed",
                                                       !.attemptsMade = Attempts - 1,
                                                       !.failedReason = "Network Error"]
                   ELSE NewEntry(j, VideoOf(j), <<70, 1>>)]
    /\ nextEntry = IF variant = "B" THEN MaxQueued + 1 ELSE 1
    /\ events = {}
    /\ cacheProgress = [j \in 1..MaxQueued |-> IF variant = "B" THEN 0 ELSE NullInt]
    /\ cacheResult = [j \in 1..MaxQueued |-> NoResult]
    /\ startPending = [v \in Videos |-> 0]
    /\ response = Response("start", MaxQueued, 201)

NextWorkers ==
    \/ \E e \in DOMAIN queue : processVideoAnalysisBegin(e)
    \/ \E e \in DOMAIN queue, ok \in BOOLEAN : startRemoteAnalysisA(e, ok)
    \/ \E e \in DOMAIN queue, ok \in BOOLEAN : startRemoteAnalysisB(e, ok)
    \/ \E ev \in events : handleJobFailure(ev)
    \/ \E ev \in events : onFailedB(ev)

SpecWorkers == InitWorkers /\ [][NextWorkers]_vars

\* The handler and the listeners under fair scheduling, for one admitted job.
\* The engine's task, once it has been reported failed, stays failed.
EngineSteady(e, ans) ==
    queue[e].remoteStatus = "failed" => (ans.kind = "ok" /\ ans.status = "failed")

\* The answers with which "every poll either errors or the engine eventually
\* reports a terminal status".
EndingAnswers == {ans \in EngineAnswers : ans.kind # "ok" \/ ans.status # "processing"}

pollTickALive(S) ==
    \E e \in DOMAIN queue, ans \in S : EngineSteady(e, ans) /\ pollTickA(e, ans)

pollAIAnalysisLive(S) ==
    \E e \in DOMAIN queue, ans \in S : EngineSteady(e, ans) /\ pollAIAnalysis(e, ans)

NextLive ==
    \/ \E v \in Videos \cup {UnknownVideo} : startAnalysisCheckA(v)
    \/ \E v \in Videos, p \in Params, o \in {"ok", "enqueueFail", "counterFail"} :
           startAnalysisCreateA(v, p, o)
    \/ \E v \in Videos \cup {UnknownVideo} : startAnalysisCheckB(v)
    \/ \E v \in Videos, p \in Params, o \in {"ok", "enqueueFail", "cacheFail"} :
           startAnalysisCreateB(v, p, o)
    \/ \E e \in DOMAIN queue : processVideoAnalysisBegin(e)
    \/ \E e \in DOMAIN queue, ok \in BOOLEAN : startRemoteAnalysisA(e, ok)
    \/ \E e \in DOMAIN queue, ok \in BOOLEAN : startRemoteAnalysisB(e, ok)
    \/ pollTickALive(EngineAnswers)
    \/ \E e \in DOMAIN queue : finalizeA(e)
    \/ pollAIAnalysisLive(EngineAnswers)
    \/ \E e \in DOMAIN queue : storeAnalysisResults(e)
    \/ \E ev \in events : onProgressA(ev)
    \/ \E ev \in events : handleJobCompletion(ev)
    \/ \E ev \in events : handleJobFailure(ev)
    \/ \E ev \in events : onProgressB(ev)
    \/ \E ev \in events : onCompletedB(ev)
    \/ \E ev \in events : onFailedB(ev)

\* Workers take due jobs, every await of the handler returns, listeners run,
\* and a poll is eventually answered with an error or a terminal status.
FairLive ==
    /\ WF_vars(\E e \in DOMAIN queue : processVideoAnalysisBegin(e))
    /\ WF_vars(\E e \in DOMAIN queue, ok \in BOOLEAN : startRemoteAnalysisA(e, ok))
    /\ WF_vars(\E e \in DOMAIN queue, ok \in BOOLEAN : startRemoteAnalysisB(e, ok))
    /\ WF_vars(pollTickALive(EndingAnswers))
    /\ WF_vars(\E e \in DOMAIN queue : finalizeA(e))
    /\ WF_vars(pollAIAnalysisLive(EndingAnswers))
    /\ WF_vars(\E e \in DOMAIN queue : storeAnalysisResults(e))
    /\ WF_vars(\E ev \in events : onProgressA(ev))
    /\ WF_vars(\E ev \in events : handleJobCompletion(ev))
    /\ WF_vars(\E ev \in events : handleJobFailure(ev))
    /\ WF_vars(\E ev \in events : onProgressB(ev))
    /\ WF_vars(\E ev \in events : onCompletedB(ev))
    /\ WF_vars(\E ev \in events : onFailedB(ev))

SpecLive == Init /\ [][NextLive]_vars /\ FairLive

\* ---- queue health -----------------------------------------------------------
\* The counts getQueueStats returns, around the thresholds of the two health
\* checks.
CountValues == {0, 9, 10, 49, 50, 99, 100, 101}

QueueStats == [waiting : CountValues, active : CountValues, failed : CountValues]

\* QueueService.healthCheck of variant A.
healthCheck(stats) ==
    IF stats.failed < 100 /\ stats.active < 50 THEN "healthy" ELSE "unhealthy"

\* QueueService.getHealthStatus of variant B, for counts getQueueStats could
\* read.
getHealthStatus(stats) ==
    IF stats.active < 10 /\ stats.waiting < 100 THEN "healthy" ELSE "unhealthy"

\* getQueueStats of variant A: the bucket sizes, or zeros when reading them
\* throws.
getQueueStatsA(counts, reachable) ==
    IF reachable THEN counts ELSE [waiting |-> 0, active |-> 0, failed |-> 0]

\* stats: null in the answer of getHealthStatus.
NullStats == [waiting |-> NullInt, active |-> NullInt, failed |-> NullInt]

\* A health request arrives while the queue has the counts stats and its
\* Redis store is reachable or not.
InitHealth ==
    /\ variant \in {"A", "B"}
    /\ clock = 0
    /\ cleanedAt = 0
    /\ sessions = [s \in SessionIds |-> NoSession]
    /\ videos = Videos
    /\ jobBudget = MaxJobs
    /\ analyses = <<>>
    /\ nextId = 1
    /\ detections = {}
    /\ queue = <<>>
    /\ nextEntry = 1
    /\ events = {}
    /\ cacheProgress = [j \in JobIds |-> NullInt]
    /\ cacheResult = [j \in JobIds |-> NoResult]
    /\ startPending = [v \in Videos |-> 0]
    /\ \E stats \in QueueStats, reachable \in BOOLEAN :
           response = [op |-> "stats", target |-> 0, code |-> 0, stats |-> stats,
                       reachable |-> reachable]

healthCheckA ==
    /\ variant = "A"
    /\ response.op = "stats"
    /\ LET stats == getQueueStatsA(response.stats, response.reachable) IN
       response' = [op |-> "health", target |-> 0, code |-> 200, stats |-> stats,
                    status |-> healthCheck(stats), reachable |-> response.reachable]
    /\ UNCHANGED <<variant, sessionVars, videos, jobBudget, analyses, nextId, detections, queue, nextEntry,
                   events, cacheProgress, cacheResult, startPending>>

getHealthStatusB ==
    /\ variant = "B"
    /\ response.op = "stats"
    /\ response' = IF response.reachable
                   THEN [op |-> "health", target |-> 0, code |-> 200,
                         stats |-> response.stats,
                         status |-> getHealthStatus(response.stats), reachable |-> TRUE]
                   ELSE [op |-> "health", target |-> 0, code |-> 200,
                         stats |-> NullStats, status |-> "unhealthy", reachable |-> FALSE]
    /\ UNCHANGED <<variant, sessionVars, videos, jobBudget, analyses, nextId, detections, queue, nextEntry,
                   events, cacheProgress, cacheResult, startPending>>

NextHealth == healthCheckA \/ getHealthStatusB

SpecHealth == InitHealth /\ [][NextHealth]_vars

\* ---- session service ------------------------------------------------------
\* Every write of a session sets lastAccessedAt to Date.now() and stores the
\* key with SETEX and the ttl SESSION_TTL: the key is gone SessionTTL hours
\* after its last write.  CacheService.getSession: the stored value, or null.
CacheGetSession(s) ==
    IF sessions[s] # NoSession /\ clock < sessions[s].lastAccessedAt + SessionTTL
    THEN sessions[s] ELSE NoSession

\* What a session operation answers: the session for getSession, a boolean
\* for the others.
SessionResponse(op, session, ok) ==
    [op |-> op, target |-> 0, code |-> 0, session |-> session, ok |-> ok]

createSession(s) ==
    /\ CacheGetSession(s) = NoSession
    /\ sessions' = [sessions EXCEPT ![s] =
           [kind |-> "session", createdAt |-> clock, lastAccessedAt |-> clock]]
    /\ response' = SessionResponse("createSession", NoSession, TRUE)
    /\ UNCHANGED <<variant, videos, jobBudget, analyses, nextId, detections, queue, nextEntry,
                   events, cacheProgress, cacheResult, startPending, clock, cleanedAt>>

\* getSession: the stored session with lastAccessedAt renewed, written back
\* with a new ttl; the age of the session is not looked at.
getSession(s) ==
    /\ LET sessionData == CacheGetSession(s)
           touched == [sessionData EXCEPT !.lastAccessedAt = clock]
       IN IF sessionData = NoSession
          THEN /\ response' = SessionResponse("getSession", NoSession, FALSE)
               /\ UNCHANGED sessions
          ELSE /\ sessions' = [sessions EXCEPT ![s] = touched]
               /\ response' = SessionResponse("getSession", touched, TRUE)
    /\ UNCHANGED <<variant, videos, jobBudget, analyses, nextId, detections, queue, nextEntry,
                   events, cacheProgress, cacheResult, startPending, clock, cleanedAt>>

\* refreshSession, and updateSession, setSessionData and removeSessionData,
\* which differ from it only in the data they store: lastAccessedAt and the
\* ttl are renewed.
refreshSession(s) ==
    /\ LET sessionData == CacheGetSession(s) IN
       IF sessionData = NoSession
       THEN /\ response' = SessionResponse("refreshSession", NoSession, FALSE)
            /\ UNCHANGED sessions
       ELSE /\ sessions' = [sessions EXCEPT ![s] =
                   [sessionData EXCEPT !.lastAccessedAt = clock]]
            /\ response' = SessionResponse("refreshSession", NoSession, TRUE)
    /\ UNCHANGED <<variant, videos, jobBudget, analyses, nextId, detections, queue, nextEntry,
                   events, cacheProgress, cacheResult, startPending, clock, cleanedAt>>

destroySession(s) ==
    /\ sessions' = [sessions EXCEPT ![s] = NoSession]
    /\ response' = SessionResponse("destroySession", NoSession, CacheGetSession(s) # NoSession)
    /\ UNCHANGED <<variant, videos, jobBudget, analyses, nextId, detections, queue, nextEntry,
                   events, cacheProgress, cacheResult, startPending, clock, cleanedAt>>

\* isSessionValid: the session is stored and younger than SESSION_TTL.
SessionValid(s) ==
    /\ CacheGetSession(s) # NoSession
    /\ clock - CacheGetSession(s).createdAt < SessionTTL

isSessionValid(s) ==
    /\ response' = SessionResponse("isSessionValid", NoSession, SessionValid(s))
    /\ UNCHANGED <<variant, videos, jobBudget, analyses, nextId, detections, queue, nextEntry,
                   events, cacheProgress, cacheResult, startPending, clock, cleanedAt, sessions>>

\* cleanupExpiredSessions, run by the interval timer: the sessions older than
\* SESSION_TTL are destroyed.
cleanupExpiredSessions ==
    /\ cleanedAt + CleanupInterval <= clock
    /\ cleanedAt' = clock
    /\ sessions' = [s \in SessionIds |->
           IF CacheGetSession(s) # NoSession /\ clock - CacheGetSession(s).createdAt > SessionTTL
           THEN NoSession ELSE sessions[s]]
    /\ response' = NoResponse
    /\ UNCHANGED <<variant, videos, jobBudget, analyses, nextId, detections, queue, nextEntry,
                   events, cacheProgress, cacheResult, startPending, clock>>

\* An hour passes.  The timer fires once per CLEANUP_INTERVAL, at a moment of
\* the hour that is unrelated to the requests: the next hour begins when the
\* cleanup of this one has run.
Tick ==
    /\ clock < MaxClock
    /\ clock < cleanedAt + CleanupInterval
    /\ clock' = clock + 1
    /\ response' = NoResponse
    /\ UNCHANGED <<variant, videos, jobBudget, analyses, nextId, detections, queue, nextEntry,
                   events, cacheProgress, cacheResult, startPending, cleanedAt, sessions>>

NextSession ==
    \/ \E s \in SessionIds : createSession(s)
    \/ \E s \in SessionIds : getSession(s)
    \/ \E s \in SessionIds : refreshSession(s)
    \/ \E s \in SessionIds : destroySession(s)
    \/ \E s \in SessionIds : isSessionValid(s)
    \/ cleanupExpiredSessions
    \/ Tick

SpecSession == Init /\ [][NextSession]_vars





\* ---- claims ---------------------------------------------------------------
Jobs == DOMAIN analyses

\* C1: for every video, at most one analysis with status pending or
\* processing exists, also when startAnalysis calls for the video interleave.
C1_OneNonTerminalPerVideo ==
    \A v \in Videos : Cardinality(FindAnalyses(v, NonTerminal)) <= 1

\* C2: once an analysis is cancelled, no later step changes its status away
\* from cancelled or inserts detections for it.
C2_CancelledStays ==
    [][\A j \in Jobs :
          analyses[j].status = "cancelled" =>
              /\ j \in DOMAIN analyses' => analyses'[j].status = "cancelled"
              /\ {d \in detections' : d.analysis_id = j} \subseteq JobRows(j)]_vars

\* The status changes the job state machine allows.
LegalTransitions ==
    {<<"pending", "processing">>, <<"processing", "completed">>,
     <<"processing", "failed">>, <<"pending", "cancelled">>,
     <<"processing", "cancelled">>, <<"failed", "pending">>}

\* C3: every change of an analysis's status is one of pending->processing,
\* processing->completed, processing->failed, pending->cancelled,
\* processing->cancelled, failed->pending, the last by retryAnalysis only.
C3_LegalTransitionsOnly ==
    [][\A j \in Jobs :
          (j \in DOMAIN analyses' /\ analyses'[j].status # analyses[j].status) =>
              /\ <<analyses[j].status, analyses'[j].status>> \in LegalTransitions
              /\ analyses[j].status = "failed" => response'.op = "retry"]_vars

\* C4: when startAnalysis answers with its error because the enqueue failed
\* (no queue entry was added), the analysis it created is not stored.
C4_NoOrphanAfterEnqueueFailure ==
    [][(response'.op = "start" /\ response'.code = 500 /\ queue' = queue) =>
          response'.target \notin DOMAIN analyses']_vars


\* C5: a startAnalysis call that begins while the video has a pending or
\* processing analysis goes no further than the existence check: it creates no
\* analysis and no queue entry, and answers 409 or with the existing id.
C5_SecondStartCreatesNothing ==
    [][\A v \in Videos :
          FindAnalyses(v, NonTerminal) # {} =>
              /\ startPending'[v] <= startPending[v]
              /\ (response'.op = "start" /\ response'.code \in {200, 409}) =>
                    /\ UNCHANGED <<analyses, queue, nextId, nextEntry>>
                    /\ \/ response'.code = 409
                       \/ response'.target \in FindAnalyses(v, NonTerminal)]_vars

C5_Witness ==
    /\ response.op = "start"
    /\ response.code \in {200, 409}
    /\ \E v \in Videos : Cardinality(FindAnalyses(v, NonTerminal)) = 1
    /\ Cardinality(DOMAIN queue) = 1

\* C6: while an analysis stays processing, the progress stored in its record
\* and in the progress cache never decreases.
C6_ProgressNeverDecreases ==
    [][\A j \in Jobs :
          (/\ analyses[j].status = "processing"
           /\ j \in DOMAIN analyses'
           /\ analyses'[j].status = "processing") =>
              /\ analyses'[j].progress >= analyses[j].progress
              /\ cacheProgress'[j] >= cacheProgress[j]]_vars

\* C7: when a handler run has received the completed document with k
\* detections and every queue event has been handled, the analysis is
\* completed with progress 100, completed_at, total_frames and violent_frames
\* set, exactly k detection rows, and the result cache holds the document.
C7_CompletedRunEndsCompleted ==
    \A e \in DOMAIN queue :
        LET j == queue[e].job IN
        (/\ queue[e].remoteStatus = "completed"
         /\ queue[e].pc = "idle"
         /\ events = {}
         /\ j \in Jobs
         /\ analyses[j].status # "cancelled") =>
            /\ analyses[j].status = "completed"
            /\ analyses[j].progress = 100
            /\ analyses[j].completed_at # NullInt
            /\ analyses[j].total_frames = queue[e].result.total_frames
            /\ analyses[j].violent_frames = queue[e].result.violent_frames
            /\ Cardinality(JobRows(j)) = queue[e].result.detections
            /\ cacheResult[j] = queue[e].result

\* C8: a handler run that has received the failed document is not polling any
\* more, and once the queue events are handled the analysis is failed with
\* the engine's message, without detections and with completed_at set.
C8_RemoteFailureEndsPolling ==
    \A e \in DOMAIN queue :
        queue[e].remoteStatus = "failed" =>
            /\ queue[e].pc # "poll"
            /\ (events = {} /\ queue[e].job \in Jobs /\ queue[e].pc = "idle") =>
                  /\ analyses[queue[e].job].status = "failed"
                  /\ analyses[queue[e].job].error_message \in
                         {MessageOr(m, "AI analysis failed") : m \in EngineMessages}
                  /\ JobRows(queue[e].job) = {}
                  /\ analyses[queue[e].job].completed_at # NullInt

\* C9: retryAnalysis on an analysis whose status is not failed answers 400 and
\* leaves the record, the detections, the queue and the cache as they were.
C9_RetryRejectedChangesNothing ==
    [][\A j \in Jobs :
          (/\ response'.op = "retry"
           /\ response'.target = j
           /\ analyses[j].status # "failed") =>
              /\ response'.code = 400
              /\ UNCHANGED <<analyses, detections, queue, cacheProgress, cacheResult>>]_vars

C9_Witness ==
    /\ response = Response("retry", 1, 400)
    /\ 1 \in Jobs
    /\ analyses[1].status = "completed"
    /\ JobRows(1) # {}
    /\ cacheResult[1] # NoResult

\* C10: when retryAnalysis has accepted a failed analysis no detection row of
\* an earlier run remains, and when a run that began after the retry has
\* received the completed document the rows of the analysis are exactly the
\* rows of that run.
C10_RerunDetectionsAreNew ==
    /\ (response.op = "retry" /\ response.code = 200) => JobRows(response.target) = {}
    /\ \A e \in DOMAIN queue :
          (/\ queue[e].rerun
           /\ queue[e].remoteStatus = "completed"
           /\ queue[e].job \in Jobs
           /\ analyses[queue[e].job].status \in {"processing", "completed"}) =>
              JobRows(queue[e].job) =
                  saveDetectionResults(queue[e].job, Run(e), queue[e].result.detections)

C10_Witness ==
    \E e \in DOMAIN queue :
        /\ queue[e].rerun
        /\ queue[e].state = "completed"
        /\ queue[e].job \in Jobs
        /\ analyses[queue[e].job].status = "completed"
        /\ JobRows(queue[e].job) # {}

\* C11: when retryAnalysis has accepted a failed analysis, the analysis is
\* pending with error_message cleared and progress 0, and the queue holds an
\* entry for it that is still to be run (waiting, delayed by the backoff, or
\* held by a worker).
C11_RetryEnqueuesEntry ==
    (response.op = "retry" /\ response.code = 200) =>
        /\ analyses[response.target].status = "pending"
        /\ analyses[response.target].error_message = Null
        /\ analyses[response.target].progress = 0
        /\ \E e \in DOMAIN queue :
              /\ queue[e].job = response.target
              /\ queue[e].state \in Live

\* The statuses no handler step leaves again.
Terminal == {"completed", "failed", "cancelled"}

\* C12: stopAnalysis on an analysis that is completed, failed or cancelled
\* leaves its record as it was: status, completed_at and error_message keep
\* their values.
C12_StopOnTerminalChangesNothing ==
    [][\A j \in Jobs :
          (/\ response'.op = "stop"
           /\ response'.target = j
           /\ analyses[j].status \in Terminal) =>
              /\ j \in DOMAIN analyses'
              /\ analyses'[j].status = analyses[j].status
              /\ analyses'[j].completed_at = analyses[j].completed_at
              /\ analyses'[j].error_message = analyses[j].error_message]_vars

\* C13: stopAnalysis on an analysis that is pending or processing leaves it
\* cancelled with completed_at set, whatever the state of its queue entry.
C13_StopCancels ==
    [][\A j \in Jobs :
          (/\ response'.op = "stop"
           /\ response'.target = j
           /\ analyses[j].status \in NonTerminal) =>
              /\ j \in DOMAIN analyses'
              /\ analyses'[j].status = "cancelled"
              /\ analyses'[j].completed_at # NullInt]_vars

\* C14: the handler runs at most 3 times for one queue entry: a run only
\* begins after fewer than 3 failed attempts, the third failure moves the
\* entry to the failed set, and an entry in the failed set stays there.
C14_AtMostThreeAttempts ==
    [][\A e \in DOMAIN queue' :
          /\ queue'[e].attemptsMade <= 3
          /\ queue'[e].state = "active" => queue'[e].attemptsMade < 3
          /\ queue'[e].attemptsMade = 3 => queue'[e].state = "failed"
          /\ (e \in DOMAIN queue /\ queue[e].state = "failed") =>
                queue'[e].state = "failed"]_vars

C14_Witness ==
    \E e \in DOMAIN queue :
        /\ queue[e].state = "failed"
        /\ queue[e].attemptsMade = 3
        /\ response.op = "retry"
        /\ response.code = 200

C18_CacheMissFallsBackToStore ==
    [][\A j \in RequestIds :
          (response'.op = "get" /\ response'.target = j) =>
              /\ response'.code = 404 => j \notin DOMAIN analyses
              /\ cacheResult[j] = NoResult =>
                    IF j \in DOMAIN analyses
                    THEN /\ response'.code = 200
                         /\ ~response'.cached
                         /\ response'.data = AnalysisView(j)
                    ELSE response'.code = 404]_vars

\* getAnalysis has answered from the store for a job whose run saved rows.
C18_Witness ==
    /\ response.op = "get" /\ response.code = 200 /\ ~response.cached
    /\ response.target \in DOMAIN analyses
    /\ response.data.detections # {}

\* C19: when deleteAnalysis has answered with success, the store holds neither
\* the record nor a detection of the job, and the queue holds no waiting,
\* delayed or active entry for it.
C19_DeleteLeavesNothing ==
    [][(response'.op = "delete" /\ response'.code = 200) =>
          /\ response'.target \notin DOMAIN analyses'
          /\ \A d \in detections' : d.analysis_id # response'.target
          /\ \A e \in DOMAIN queue' :
                 queue'[e].job = response'.target => queue'[e].state \notin Live]_vars

\* C20: every completed, failed or cancelled job has completedAt set, and
\* completedAt is not rewritten while the job stays in a terminal state.
C20_CompletedAtSetOnce ==
    [][\A j \in DOMAIN analyses' :
          analyses'[j].status \in Terminal =>
              /\ analyses'[j].completed_at # NullInt
              /\ (j \in DOMAIN analyses /\ analyses[j].status \in Terminal) =>
                     analyses'[j].completed_at = analyses[j].completed_at]_vars

\* C21: at every state a job has detections only if its status is completed.
C21_DetectionsOnlyWhenCompleted ==
    \A j \in DOMAIN analyses : JobRows(j) # {} => analyses[j].status = "completed"

\* C22: every job in a terminal state has exactly one of errorMessage, or
\* totalFrames together with violentFrames, populated: never both, never
\* neither.
C22_ErrorOrResult ==
    \A j \in DOMAIN analyses :
        analyses[j].status \in Terminal =>
            (analyses[j].error_message # Null) #
                (analyses[j].total_frames # NullInt /\ analyses[j].violent_frames # NullInt)

\* C23: under fair scheduling, with polls that error or eventually report a
\* terminal status, every job that is processing eventually reaches a terminal
\* state.
C23_ProcessingEnds ==
    \A j \in 1..MaxJobs :
        (j \in DOMAIN analyses /\ analyses[j].status = "processing")
            ~> (j \in DOMAIN analyses /\ analyses[j].status \in Terminal)

\* C24: the queue health check, for counts it could read, reports unhealthy
\* exactly when the failed count is at least 100 or the active count is at
\* least 50.
C24_UnhealthyExactlyOverThresholds ==
    (response.op = "health" /\ response.reachable) =>
        (response.status = "unhealthy"
            <=> (response.stats.failed >= 100 \/ response.stats.active >= 50))

\* C25: at every state every detection refers to a stored job and every job
\* to a stored video: deleting a video deletes its jobs and their detections,
\* deleting a job deletes its detections, and a job for a video that is not
\* stored is not created.
C25_ReferencesExist ==
    /\ \A d \in detections : d.analysis_id \in DOMAIN analyses
    /\ \A j \in DOMAIN analyses : analyses[j].video_id \in videos

\* A video was deleted after a run of its job had saved detections: the job
\* and the rows are gone with it.
C25_Witness ==
    /\ response.op = "deleteVideo" /\ response.code = 200
    /\ videos = {} /\ analyses = <<>> /\ detections = {}
    /\ \E e \in DOMAIN queue :
           /\ queue[e].state = "completed"
           /\ queue[e].result # NoResult
           /\ queue[e].result.detections > 0

AdmittedParams(j) == CHOOSE p \in Params : p[1] = analyses[j].confidence_threshold

\* C27: the queue entry created by retryAnalysis carries the confidenceThreshold
\* and the frameInterval the job was admitted with.
C27_RetryKeepsParameters ==
    [][\A e \in DOMAIN queue' :
          (/\ response'.op = "retry" /\ response'.code = 200
           /\ e \notin DOMAIN queue
           /\ queue'[e].job = response'.target) =>
              /\ queue'[e].confidenceThreshold = AdmittedParams(queue'[e].job)[1]
              /\ queue'[e].frameInterval = AdmittedParams(queue'[e].job)[2]]_vars

\* C28: a poll tick of a handler whose job has been cancelled ends the handler
\* without an error: the entry is no longer active after the tick and no
\* 'failed' event is emitted for it.
C28_CancelledHandlerReturns ==
    [][\A e \in DOMAIN queue :
          (/\ queue[e].pc = "poll"
           /\ queue[e].job \in DOMAIN analyses
           /\ analyses[queue[e].job].status = "cancelled"
           /\ e \in DOMAIN queue' /\ queue'[e] # queue[e]) =>
              /\ queue'[e].state = "completed"
              /\ \A ev \in events' \ events : ev.type # "failed"]_vars

\* C29: a transport error other than not-found is answered by another poll:
\* the first poll of a handler never ends the poll loop with the transport
\* error as the reason of a failed attempt.
C29_TransportErrorIsRetried ==
    [][\A e \in DOMAIN queue :
          (/\ queue[e].pc = "poll"
           /\ queue[e].remoteStatus = "none"
           /\ e \in DOMAIN queue'
           /\ queue'[e].pc # "poll") =>
              ~(/\ queue'[e].attemptsMade = queue[e].attemptsMade + 1
                /\ queue'[e].failedReason = "Network Error")]_vars

\* C30: a poll tick answered with not-found ends the poll loop as a failed
\* attempt (the handler is idle afterwards, so the remote task is not polled
\* again) and the failure is written to the job: the first handler's catch
\* stores status failed on that tick, and every 'failed' listener that takes
\* the event of such a failure leaves the stored job failed with its message.
C30_NotFoundEndsPolling ==
    [][/\ \A e \in DOMAIN queue :
             (\/ pollTickA(e, [kind |-> "notfound"])
              \/ pollAIAnalysis(e, [kind |-> "notfound"])) =>
                 /\ queue'[e].pc = "idle"
                 /\ queue'[e].state \in {"delayed", "failed"}
                 /\ queue'[e].attemptsMade = queue[e].attemptsMade + 1
                 /\ queue'[e].failedReason \in
                        {"Analysis not found in AI service", "AI analysis not found"}
                 /\ \E ev \in events' : /\ ev.type = "failed"
                                        /\ ev.job = queue[e].job
                                        /\ ev.message = queue'[e].failedReason
                 /\ (variant = "A" /\ queue[e].job \in DOMAIN analyses) =>
                        /\ analyses'[queue[e].job].status = "failed"
                        /\ analyses'[queue[e].job].error_message = queue'[e].failedReason
       /\ \A ev \in events \ events' :
             (/\ ev.type = "failed"
              /\ ev.message \in {"Analysis not found in AI service", "AI analysis not found"}
              /\ ev.job \in DOMAIN analyses) =>
                 /\ analyses'[ev.job].status = "failed"
                 /\ analyses'[ev.job].error_message = ev.message]_vars

C30_Witness ==
    \E e \in DOMAIN queue :
        /\ queue[e].state \in {"delayed", "failed"}
        /\ queue[e].failedReason \in
               {"Analysis not found in AI service", "AI analysis not found"}
        /\ queue[e].job \in DOMAIN analyses
        /\ analyses[queue[e].job].status = "failed"
        /\ analyses[queue[e].job].error_message = queue[e].failedReason
        /\ \A ev \in events : ev.type # "failed"

\* C31: a poll tick whose status document reports a progress greater than the
\* last observed value writes that value to the job record and to the progress
\* cache; a tick whose progress is not greater writes neither.
C31_ProgressWrittenOnIncrease ==
    [][\A e \in DOMAIN queue :
          \A ans \in {a \in EngineAnswers : a.kind = "ok"} :
             (pollTickA(e, ans) \/ pollAIAnalysis(e, ans)) =>
                LET j == queue[e].job IN
                IF ans.progress > queue[e].lastProgress
                THEN /\ j \in DOMAIN analyses => analyses'[j].progress = ans.progress
                     /\ \/ cacheProgress'[j] = ans.progress
                        \/ \E ev \in events' : /\ ev.type = "progress" /\ ev.job = j
                                               /\ ev.progress = ans.progress
                ELSE /\ j \in DOMAIN analyses => analyses'[j].progress = analyses[j].progress
                     /\ cacheProgress'[j] = cacheProgress[j]
                     /\ \A ev \in events' \ events : ev.type # "progress"]_vars

\* The queue entries of a job that a worker holds or will take.
LiveEntries(j) ==
    {e \in DOMAIN queue : queue[e].job = j /\ queue[e].state \in {"waiting", "delayed", "active"}}

\* C32: in the state a startAnalysis, stopAnalysis or retryAnalysis call returns
\* in, every pending or processing job has exactly one live queue entry and
\* every completed or cancelled job has none.
C32_OneLiveEntryWhileNonTerminal ==
    response.op \in {"start", "stop", "retry"} =>
        \A j \in DOMAIN analyses :
            /\ analyses[j].status \in NonTerminal => Cardinality(LiveEntries(j)) = 1
            /\ analyses[j].status \in {"completed", "cancelled"} => LiveEntries(j) = {}

\* C33: a job whose record has status failed has no queue entry that is
\* waiting, delayed or active.
C33_FailedHasNoLiveEntry ==
    \A j \in DOMAIN analyses : analyses[j].status = "failed" => LiveEntries(j) = {}

\* C34: whenever the result cache holds a result for a job id, the job record
\* exists and has status completed.
C34_CachedResultIsOfCompleted ==
    \A j \in JobIds :
        cacheResult[j] # NoResult =>
            j \in DOMAIN analyses /\ analyses[j].status = "completed"

\* C35: every job whose record has status completed has progress 100.
C35_CompletedHasFullProgress ==
    \A j \in DOMAIN analyses : analyses[j].status = "completed" => analyses[j].progress = 100

\* C36: in the state startAnalysis returns a failure in, having destroyed the
\* job record it created, the queue holds no entry for that job.
C36_FailedStartLeavesNoEntry ==
    (/\ response.op = "start" /\ response.code = 500
     /\ response.target # 0 /\ response.target \notin DOMAIN analyses) =>
        \A e \in DOMAIN queue : queue[e].job # response.target

\* C37: a health check made while the queue's store cannot be reached, so
\* that the bucket counts cannot be read, reports unhealthy.
C37_UnreachableStoreIsUnhealthy ==
    (response.op = "health" /\ ~response.reachable) => response.status = "unhealthy"

\* C38: in the state deleteVideo returns in, no queue entry of a job of the
\* deleted video is waiting, delayed or active.
C38_DeletedVideoHasNoLiveEntry ==
    (response.op = "deleteVideo" /\ response.code = 200) =>
        \A e \in DOMAIN queue :
            queue[e].videoId \notin videos =>
                queue[e].state \notin {"waiting", "delayed", "active"}

\* C39: getSession never returns a session that is 24 hours old or older, that
\* is, one for which isSessionValid is false.
C39_ReturnedSessionIsYoung ==
    (response.op = "getSession" /\ response.session # NoSession) =>
        clock - response.session.createdAt < SessionTTL

====
